---- MODULE Spec2Model ----
(***************************************************************************)
(* A model of xmlquery: the pattern compiler and wildcard matcher          *)
(* (src/src/pattern.rs), the table extraction engine (src/src/main.rs),    *)
(* the traversal of paths, folders and archives (src/src/process.rs) and   *)
(* the two passes of main with the blocking tasks, the delivery channel    *)
(* and output_printer (src/src/main.rs).                                   *)
(*                                                                         *)
(* Strings that the code inspects byte by byte (pattern strings, segments, *)
(* tag names) are sequences of one-character strings.  Cell texts, which   *)
(* the code only copies, are plain strings.                                *)
(***************************************************************************)
EXTENDS Integers, Sequences, FiniteSets, TLC

VARIABLES
    pattern,    \* main: the pattern argument, a sequence of characters
    tree,       \* main: the result of Pattern::new, [ok, pat]
    node,       \* parse_file: the document node handed to print_by_pattern
    table,      \* parse_file: the table print_by_pattern returned
    tablesIn,   \* cartesian_product: the argument tables, a sequence of tables
    pc,         \* main: "start", "compiled", "aborted", "extracted";
                \* cartesian_product: "start", "combined"
    mpattern,   \* pattern_check: argument pattern
    mtarget,    \* pattern_check: argument target
    matched,    \* pattern_check: the value returned
    mdone,      \* pattern_check: has returned
    fs,         \* the file system under the path arguments, a sequence of entries
    pass,       \* main: "count" (lines 29-38) or "process" (lines 50-68)
    tpc,        \* per path: where the future of that path stands
    cursor,     \* per folder or archive: the entry the listing has reached
    set,        \* process_folder: per folder, the futures pushed so far
    calls,      \* per path: how often the callback was invoked for it
    diag,       \* per path: how many catch_io messages name it
    total,      \* main: the AtomicUsize total of the count pass
    spawned,    \* main: the documents read and handed to spawn_blocking
    panicked,   \* an unreachable!() was reached
    worker,     \* per document: its spawn_blocking task, "none" until it runs,
                \* then "sending", "sent" or "panicked"
    chan,       \* main: the entries buffered in the mpsc channel, oldest first
    received,   \* per document: how often output_printer received its entry
    count,      \* output_printer: count
    lines       \* output_printer: the progress lines written, oldest first

compileVars == <<pattern, tree, node, table, tablesIn, pc>>
matchVars == <<mpattern, mtarget, matched, mdone>>
deliverVars == <<worker, chan, received, count, lines>>
traverseVars ==
    <<fs, pass, tpc, cursor, set, calls, diag, total, spawned, panicked,
      worker, chan, received, count, lines>>
vars ==
    <<pattern, tree, node, table, tablesIn, pc, mpattern, mtarget, matched, mdone,
      fs, pass, tpc, cursor, set, calls, diag, total, spawned, panicked,
      worker, chan, received, count, lines>>

----------------------------------------------------------------------------
(* Bounds of the model *)

MaxPatLen == 5
MaxStubs == 3
MaxSegLen == 4
MaxTargetLen == 4
MaxNodes == 3
MaxDepth == 2
MaxEntries == 3
MaxFsDepth == 2
\* the capacity of the delivery channel (64 at main.rs line 47) and the
\* period of the progress lines (101 at main.rs line 77), taken small so
\* that a full channel and a periodic line occur within MaxDocs documents
Capacity == 1
ProgressEvery == 1
\* the number of files under the path arguments of a whole run of main
MaxDocs == 2
\* the number of cells in the tables handed to cartesian_product
MaxCells == 4

----------------------------------------------------------------------------
(* str primitives of the Rust standard library, on character sequences *)

StringsUpTo(A, n) == UNION {[1..k -> A] : k \in 0..n}

\* str::starts_with
StartsWith(s, pre) ==
    /\ Len(pre) <= Len(s)
    /\ SubSeq(s, 1, Len(pre)) = pre

\* str::ends_with
EndsWith(s, suf) ==
    /\ Len(suf) <= Len(s)
    /\ SubSeq(s, Len(s) - Len(suf) + 1, Len(s)) = suf

\* str::find(char): 1-based index of the first occurrence, 0 when there is none
FindChar(s, c) ==
    IF \E i \in 1..Len(s) : s[i] = c
    THEN CHOOSE i \in 1..Len(s) : s[i] = c /\ \A j \in 1..(i - 1) : s[j] # c
    ELSE 0

\* str::rfind(char): 1-based index of the last occurrence, 0 when there is none
RFindChar(s, c) ==
    IF \E i \in 1..Len(s) : s[i] = c
    THEN CHOOSE i \in 1..Len(s) : s[i] = c /\ \A j \in (i + 1)..Len(s) : s[j] # c
    ELSE 0

\* str::find(&str): 1-based index of the first occurrence, 0 when there is none
Find(s, sub) ==
    LET at(i) == SubSeq(s, i, i + Len(sub) - 1) = sub
        starts == {i \in 1..(Len(s) - Len(sub) + 1) : at(i)}
    IN  IF starts = {} THEN 0
        ELSE CHOOSE i \in starts : \A j \in starts : i <= j

\* str::split_once(char): <<before, after>>; the caller tests FindChar first
SplitOnce(s, c) ==
    LET i == FindChar(s, c)
    IN  <<SubSeq(s, 1, i - 1), SubSeq(s, i + 1, Len(s))>>

----------------------------------------------------------------------------
(* Pattern: a sequence of <<segment, sub-pattern>> pairs; a leaf is <<>> *)

Leaf == <<>>
Compiled(p) == [ok |-> TRUE, pat |-> p]
Panicked == [ok |-> FALSE, pat |-> <<>>]

is_leaf(p) == Len(p) = 0

RECURSIVE count_leafs(_)
count_leafs(p) ==
    LET RECURSIVE sum(_)
        sum(i) == IF i > Len(p) THEN 0 ELSE count_leafs(p[i][2]) + sum(i + 1)
    IN  IF is_leaf(p) THEN 1 ELSE sum(1)

\* the bytes the loop of Pattern::new visits: pattern[0..len-1], first skipped
ScanLastWhole(p) == Len(p)
ScanLast(p) == Len(p) - 1

\* acc.0.append(&mut Pattern::new(..).0)
append_front(acc, pairs) == pairs \o acc
append(acc, pairs) == acc \o pairs

\* the assertion of the '}' arm: depth must not be zero
ClosingAllowed(depth) == depth # 0

\* the guard of the ',' arm
SplitsHere(depth) == depth = 0

RECURSIVE New(_), Scan(_, _, _, _, _)

\* the for loop of the '{' branch, from byte i on, and the final append
Scan(p, i, depth, start, acc) ==
    IF i > ScanLast(p)
    THEN LET last == New(SubSeq(p, start, Len(p) - 1))
         IN  IF last.ok THEN Compiled(append(acc, last.pat)) ELSE Panicked
    ELSE IF p[i] = "{" THEN Scan(p, i + 1, depth + 1, start, acc)
    ELSE IF p[i] = "}" THEN
         IF ClosingAllowed(depth) THEN Scan(p, i + 1, depth - 1, start, acc)
         ELSE Panicked
    ELSE IF p[i] = "," /\ SplitsHere(depth) THEN
         LET alt == New(SubSeq(p, start, i - 1))
         IN  IF alt.ok THEN Scan(p, i + 1, depth, i + 1, append(acc, alt.pat))
             ELSE Panicked
    ELSE Scan(p, i + 1, depth, start, acc)

\* Pattern::new
New(p) ==
    IF StartsWith(p, <<"{">>) THEN
        IF ~EndsWith(p, <<"}">>) THEN Panicked
        ELSE Scan(p, 2, 0, 2, Leaf)
    ELSE IF Len(p) = 0 THEN Compiled(Leaf)
    ELSE LET cut == FindChar(p, "/")
             stub == IF cut = 0 THEN p ELSE SplitOnce(p, "/")[1]
             rest == IF cut = 0 THEN <<>> ELSE SplitOnce(p, "/")[2]
             sub == New(rest)
         IN  IF sub.ok THEN Compiled(<<<<stub, sub.pat>>>>) ELSE Panicked


----------------------------------------------------------------------------
(* Pattern::pattern_check *)

\* line 84: the string whose end is compared with the text after the only '*'
SuffixRegionAfterPrefix(target, starts_with) ==
    SubSeq(target, Len(starts_with) + 1, Len(target))
SuffixRegion(target, starts_with) == target

\* line 86: pattern.split_at(last_index), last the 1-based place of the last '*'
SplitAt(s, last) == <<SubSeq(s, 1, last - 1), SubSeq(s, last, Len(s))>>

\* lines 90-99: the loop over the sections between the '*'
RECURSIVE Sections(_, _)
Sections(pat, target) ==
    IF pat = <<>> THEN TRUE
    ELSE LET cut == FindChar(pat, "*")
             section == IF cut = 0 THEN pat ELSE SplitOnce(pat, "*")[1]
             rest == IF cut = 0 THEN <<>> ELSE SplitOnce(pat, "*")[2]
             index == Find(target, section)
         IN  IF index = 0 THEN FALSE
             ELSE Sections(rest,
                           SubSeq(target, index + Len(section), Len(target)))

pattern_check(pat, target) ==
    IF FindChar(pat, "*") = 0 THEN pat = target
    ELSE LET starts_with == SplitOnce(pat, "*")[1]
             rest == SplitOnce(pat, "*")[2]
             last_index == RFindChar(rest, "*")
         IN  IF ~StartsWith(target, starts_with) THEN FALSE
             ELSE IF last_index = 0
                  THEN EndsWith(SuffixRegion(target, starts_with), rest)
             ELSE LET middle == SplitAt(rest, last_index)[1]
                      ends_with == SplitAt(rest, last_index)[2]
                  IN  IF ~EndsWith(target, ends_with) THEN FALSE
                      ELSE Sections(middle, target)

----------------------------------------------------------------------------
(* The extraction engine.  A document node is [name, text, kids]: its tag  *)
(* name, its text ("" when it has none) and its children in order.  A      *)
(* table is a sequence of rows, a row a sequence of cells.                 *)

\* lines 214-218: indexes[i] += 1 has run past the last row of tables[i]
WrapsEarly(next, t) == next >= Len(t)
Wraps(next, t) == next > Len(t)

\* lines 207-219: the inner loop, from position i down; done when i reaches 0
RECURSIVE Advance(_, _, _)
Advance(tables, indexes, i) ==
    IF i = 0 THEN [done |-> TRUE, indexes |-> indexes]
    ELSE IF Wraps(indexes[i] + 1, tables[i])
         THEN Advance(tables, [indexes EXCEPT ![i] = 1], i - 1)
         ELSE [done |-> FALSE, indexes |-> [indexes EXCEPT ![i] = @ + 1]]

\* lines 198-206: the row pushed for the current indexes
RECURSIVE RowFrom(_, _, _)
RowFrom(tables, indexes, k) ==
    IF k > Len(tables) THEN <<>>
    ELSE tables[k][indexes[k]] \o RowFrom(tables, indexes, k + 1)

RowAt(tables, indexes) == RowFrom(tables, indexes, 1)

\* lines 197-220: the outer loop
RECURSIVE Odometer(_, _, _)
Odometer(tables, indexes, acc) ==
    LET pushed == acc \o <<RowAt(tables, indexes)>>
        step == Advance(tables, indexes, Len(indexes))
    IN  IF step.done THEN pushed ELSE Odometer(tables, step.indexes, pushed)

\* lines 192-194: the only table, cloned
SingleFirstRow(ts) == <<ts[1][1]>>
Single(ts) == ts[1]

cartesian_product(ts) ==
    IF ts = <<>> THEN <<>>
    ELSE IF \E k \in 1..Len(ts) : ts[k] = <<>> THEN <<<<>>>>
    ELSE IF Len(ts) = 1 THEN Single(ts)
    ELSE Odometer(ts, [k \in 1..Len(ts) |-> 1], <<>>)

\* line 154: vec![""; sub_pattern.count_leafs()]
OneEmptyCell(sub) == <<"">>
NoCells(sub) == <<>>
EmptyRow(sub) == [c \in 1..count_leafs(sub) |-> ""]

\* lines 153-156: an empty table is replaced by one row of empty strings
NoSubstitute(t, sub) == t
Substitute(t, sub) == IF t = <<>> THEN <<EmptyRow(sub)>> ELSE t

\* line 149: the children whose tag name the segment matches, in order
Matching(segment, n) ==
    SelectSeq(n.kids, LAMBDA kid : pattern_check(segment, kid.name))

RECURSIVE print_by_pattern(_, _), ChildTables(_, _, _), SegmentTablesFrom(_, _, _)

\* lines 150-152: the tables of the matching children from the i-th on,
\* joined row after row
ChildTables(sub, found, i) ==
    IF i > Len(found) THEN <<>>
    ELSE print_by_pattern(sub, found[i]) \o ChildTables(sub, found, i + 1)

\* lines 146-157: the table of one (segment, sub_pattern) pair
SegmentTable(segment, sub, n) ==
    Substitute(ChildTables(sub, Matching(segment, n), 1), sub)

\* lines 144-158: the tables of the pairs from the k-th on, in order
SegmentTablesFrom(p, n, k) ==
    IF k > Len(p) THEN <<>>
    ELSE <<SegmentTable(p[k][1], p[k][2], n)>> \o SegmentTablesFrom(p, n, k + 1)

print_by_pattern(p, n) ==
    IF is_leaf(p) THEN <<<<n.text>>>>
    ELSE cartesian_product(SegmentTablesFrom(p, n, 1))

----------------------------------------------------------------------------
(* The inputs *)

PatternAlphabet == {"a", "b", "{", "}", ",", "/"}
RawPatterns == StringsUpTo(PatternAlphabet, MaxPatLen)

\* pattern strings written with exactly n segments: a segment, a segment
\* followed by '/' and a pattern, or a brace group of two alternatives
RECURSIVE PatWithStubs(_, _)
PatWithStubs(S, n) ==
    IF n = 0 THEN {<<>>}
    ELSE {<<s>> \o (IF r = <<>> THEN <<>> ELSE <<"/">> \o r) :
              s \in S, r \in PatWithStubs(S, n - 1)}
         \cup UNION {{<<"{">> \o x \o <<",">> \o y \o <<"}">> :
                         x \in PatWithStubs(S, i), y \in PatWithStubs(S, n - i)} :
                     i \in 1..(n - 1)}

WrittenPatterns(S) == UNION {PatWithStubs(S, n) : n \in 0..MaxStubs}

NoTree == [ok |-> FALSE, pat |-> <<>>]
NoNode == [name |-> <<>>, text |-> "", kids |-> <<>>]

MatchIdle ==
    /\ mpattern = <<>>
    /\ mtarget = <<>>
    /\ matched = FALSE
    /\ mdone = FALSE

\* before the process pass: no task spawned, nothing sent or received
DeliverIdle ==
    /\ worker = <<>>
    /\ chan = <<>>
    /\ received = <<>>
    /\ count = 0
    /\ lines = <<>>

TraverseIdle ==
    /\ fs = <<>>
    /\ pass = "count"
    /\ tpc = <<>>
    /\ cursor = <<>>
    /\ set = <<>>
    /\ calls = <<>>
    /\ diag = <<>>
    /\ total = 0
    /\ spawned = {}
    /\ panicked = FALSE
    /\ DeliverIdle

----------------------------------------------------------------------------
(* main, lines 16-17: the pattern argument is compiled; a panic ends the run *)

Compile ==
    /\ pc = "start"
    /\ tree' = New(pattern)
    /\ pc' = IF tree'.ok THEN "compiled" ELSE "aborted"
    /\ UNCHANGED <<pattern, node, table, tablesIn>>
    /\ UNCHANGED <<matchVars, traverseVars>>

InitPattern ==
    /\ pattern \in RawPatterns \cup WrittenPatterns({"a", "b"})
    /\ tree = NoTree
    /\ node = NoNode
    /\ table = <<>>
    /\ tablesIn = <<>>
    /\ pc = "start"
    /\ MatchIdle
    /\ TraverseIdle

NextPattern == Compile

SpecPattern == InitPattern /\ [][NextPattern]_vars

----------------------------------------------------------------------------
(* Brace structure of a pattern string, counted rather than scanned *)

Count(s, c, i) == Cardinality({j \in 1..i : s[j] = c})

\* every '}' closes an earlier '{' and every '{' is closed
Balanced(s) ==
    /\ \A i \in 1..Len(s) : Count(s, "}", i) <= Count(s, "{", i)
    /\ Count(s, "{", Len(s)) = Count(s, "}", Len(s))

Has(s, c) == \E i \in 1..Len(s) : s[i] = c

\* the grammar of patterns: empty; '{' alt ',' ... ',' alt '}'; a segment free
\* of braces, commas and slashes, alone or followed by '/' and a pattern
RECURSIVE InGrammar(_), InAlternatives(_)
InGrammar(s) ==
    \/ s = <<>>
    \/ /\ Len(s) >= 2
       /\ s[1] = "{"
       /\ s[Len(s)] = "}"
       /\ InAlternatives(SubSeq(s, 2, Len(s) - 1))
    \/ /\ Len(s) >= 1
       /\ s[1] \notin {"{", "}", ",", "/"}
       /\ LET cut == FindChar(s, "/")
              stub == IF cut = 0 THEN s ELSE SubSeq(s, 1, cut - 1)
          IN  /\ \A i \in 1..Len(stub) : stub[i] \notin {"{", "}", ","}
              /\ cut # 0 => InGrammar(SubSeq(s, cut + 1, Len(s)))

InAlternatives(s) ==
    \/ InGrammar(s)
    \/ \E i \in 1..Len(s) :
          /\ s[i] = ","
          /\ InGrammar(SubSeq(s, 1, i - 1))
          /\ InAlternatives(SubSeq(s, i + 1, Len(s)))

\* C6 as stated: every pattern string with balanced braces compiles.
C6_BalancedCompiles ==
    (pc # "start" /\ Balanced(pattern)) => tree.ok

\* C6 amended: every pattern string of the grammar (empty; a brace group of
\* comma-separated patterns spanning the whole pattern; a segment without
\* braces or commas, alone or followed by '/' and a pattern) is compiled by
\* Pattern::new without a panic.
C6_GrammarCompiles ==
    (pc # "start" /\ InGrammar(pattern)) => (tree.ok /\ pc = "compiled")

C6_Witness ==
    /\ pc = "compiled"
    /\ InGrammar(pattern)
    /\ \E i \in 2..Len(pattern) : pattern[i] = "{"
    /\ Has(pattern, ",")
    /\ Has(pattern, "/")

\* C7: every pattern string with unbalanced braces makes Pattern::new abort.
C7_UnbalancedAborts ==
    (pc # "start" /\ ~Balanced(pattern)) => (~tree.ok /\ pc = "aborted")

----------------------------------------------------------------------------
(* Brace expansion *)

\* the commas of s that no brace pair of s encloses
TopCommas(s) ==
    {i \in 1..Len(s) : s[i] = "," /\ Count(s, "{", i) = Count(s, "}", i)}

\* the alternatives of a brace group with interior s, in the order listed
Alternatives(s) ==
    LET cuts == TopCommas(s)
        n == Cardinality(cuts)
        cut(k) == CHOOSE i \in cuts : Cardinality({j \in cuts : j < i}) = k - 1
        from(k) == IF k = 1 THEN 1 ELSE cut(k - 1) + 1
        to(k) == IF k = n + 1 THEN Len(s) ELSE cut(k) - 1
    IN  [k \in 1..(n + 1) |-> SubSeq(s, from(k), to(k))]

RECURSIVE Concat(_)
Concat(seqs) == IF seqs = <<>> THEN <<>> ELSE Head(seqs) \o Concat(Tail(seqs))

\* the leaves of a pattern tree, left to right depth-first, each as the list
\* of segments leading to it
RECURSIVE LeafPaths(_)
LeafPaths(p) ==
    IF is_leaf(p) THEN <<<<>>>>
    ELSE Concat([i \in 1..Len(p) |->
             LET below == LeafPaths(p[i][2])
             IN  [j \in 1..Len(below) |-> <<p[i][1]>> \o below[j]]])

\* the leaves of the pairs compiled from one alternative (none when it is empty)
PairLeaves(p) == IF is_leaf(p) THEN <<>> ELSE LeafPaths(p)

Interior(s) == SubSeq(s, 2, Len(s) - 1)

\* C8: a compiled brace group "{alt1,...,altn}" has as its pairs the pairs of
\* its alternatives, concatenated in the order listed, where only the commas
\* outside nested braces separate alternatives; so its leaves, read left to
\* right depth-first, are those of alt1, then those of alt2, and so on.
C8_BraceExpansion ==
    (pc = "compiled" /\ StartsWith(pattern, <<"{">>)) =>
        LET alts == Alternatives(Interior(pattern))
        IN  /\ \A k \in 1..Len(alts) : New(alts[k]).ok
            /\ tree.pat = Concat([k \in 1..Len(alts) |-> New(alts[k]).pat])
            /\ PairLeaves(tree.pat) =
                   Concat([k \in 1..Len(alts) |-> PairLeaves(New(alts[k]).pat)])

C8_Witness ==
    /\ pc = "compiled"
    /\ StartsWith(pattern, <<"{">>)
    /\ Balanced(pattern)
    /\ LET s == Interior(pattern)
       IN  /\ Cardinality(TopCommas(s)) >= 1
           /\ \E i \in 1..Len(s) : s[i] = "," /\ i \notin TopCommas(s)
    /\ Len(tree.pat) >= 3
    /\ \E i, j \in 1..Len(tree.pat) : tree.pat[i][1] # tree.pat[j][1]


----------------------------------------------------------------------------
(* The wildcard matcher applied to one segment and one name *)

SegmentAlphabet == {"a", "b", "*"}
Segments == StringsUpTo(SegmentAlphabet, MaxSegLen)
Targets == StringsUpTo(SegmentAlphabet, MaxTargetLen)

CompileIdle ==
    /\ pattern = <<>>
    /\ tree = NoTree
    /\ node = NoNode
    /\ table = <<>>
    /\ tablesIn = <<>>
    /\ pc = "start"

Check ==
    /\ ~mdone
    /\ matched' = pattern_check(mpattern, mtarget)
    /\ mdone' = TRUE
    /\ UNCHANGED <<mpattern, mtarget>>
    /\ UNCHANGED <<compileVars, traverseVars>>

InitMatch ==
    /\ mpattern \in Segments
    /\ mtarget \in Targets
    /\ matched = FALSE
    /\ mdone = FALSE
    /\ CompileIdle
    /\ TraverseIdle

NextMatch == Check

SpecMatch == InitMatch /\ [][NextMatch]_vars

Stars(s) == {i \in 1..Len(s) : s[i] = "*"}
FirstStar(s) == CHOOSE i \in Stars(s) : \A j \in Stars(s) : i <= j
LastStar(s) == CHOOSE i \in Stars(s) : \A j \in Stars(s) : j <= i
Prefix(s) == SubSeq(s, 1, FirstStar(s) - 1)
Suffix(s) == SubSeq(s, LastStar(s) + 1, Len(s))

\* C4: a pattern without '*' matches exactly the equal target; a pattern with
\* one '*' matches exactly the targets that start with the text before the
\* '*' and end with the text after it, the two regions free to overlap.
C4_AtMostOneStar ==
    mdone =>
        /\ Stars(mpattern) = {} => (matched <=> mpattern = mtarget)
        /\ Cardinality(Stars(mpattern)) = 1 =>
              (matched <=> /\ StartsWith(mtarget, Prefix(mpattern))
                           /\ EndsWith(mtarget, Suffix(mpattern)))
        /\ mpattern = <<"*">> => matched
        /\ (mpattern = <<"a", "*", "b">> /\ mtarget = <<"a", "b">>) => matched
        /\ (mpattern = <<"a", "*", "b">> /\ mtarget = <<"a">>) => ~matched
        /\ (mpattern = <<"a", "b">> /\ mtarget = <<"a", "b", "a">>) => ~matched

\* one '*', and the target is shorter than prefix and suffix together
C4_Witness ==
    /\ mdone
    /\ matched
    /\ Cardinality(Stars(mpattern)) = 1
    /\ Prefix(mpattern) # <<>>
    /\ Suffix(mpattern) # <<>>
    /\ Len(mtarget) < Len(Prefix(mpattern)) + Len(Suffix(mpattern))

\* the texts between consecutive '*' of s, in order
RECURSIVE Literals(_)
Literals(s) ==
    IF Stars(s) = {} THEN <<>>
    ELSE LET after == SubSeq(s, FirstStar(s) + 1, Len(s))
         IN  IF Stars(after) = {} THEN <<>>
             ELSE <<Prefix(after)>> \o Literals(after)

\* the literals occur in t in order, none overlapping the one before
RECURSIVE InOrder(_, _)
InOrder(lits, t) ==
    IF lits = <<>> THEN TRUE
    ELSE LET at == Find(t, Head(lits))
         IN  /\ at # 0
             /\ InOrder(Tail(lits), SubSeq(t, at + Len(Head(lits)), Len(t)))

\* the part of the target after the prefix and before the suffix
Middle(s, t) == SubSeq(t, Len(Prefix(s)) + 1, Len(t) - Len(Suffix(s)))

\* C5: a pattern with two or more '*' matches exactly the targets that start
\* with its prefix, end with its suffix and hold its interior literals in
\* order between the two; "**" matches every target.
C5_TwoOrMoreStars ==
    (mdone /\ Cardinality(Stars(mpattern)) >= 2) =>
        (matched <=> /\ StartsWith(mtarget, Prefix(mpattern))
                     /\ EndsWith(mtarget, Suffix(mpattern))
                     /\ InOrder(Literals(mpattern), Middle(mpattern, mtarget)))


----------------------------------------------------------------------------
(* Extraction from one document under one compiled pattern *)

Names == {<<"a">>, <<"b">>}

\* the text of the i-th node of a document, counted in document order: the
\* engine only copies texts, and distinct texts show where a cell came from
TextOf(i) == ToString(i)

\* the sequences of sibling nodes with n nodes in all, nested at most d deep,
\* the first of them being node number first of the document
RECURSIVE Forests(_, _, _)
Forests(n, d, first) ==
    IF n = 0 THEN {<<>>}
    ELSE IF d = 0 THEN {}
    ELSE UNION {
             {<<[name |-> nm, text |-> TextOf(first), kids |-> ks]>> \o rest :
                  nm \in Names,
                  ks \in Forests(k - 1, d - 1, first + 1),
                  rest \in Forests(n - k, d, first + k)} :
             k \in 1..n}

\* the root node of a parsed document
Documents ==
    {[name |-> <<>>, text |-> "", kids |-> f] :
         f \in UNION {Forests(n, MaxDepth, 1) : n \in 0..MaxNodes}}

\* parse_file, lines 122-123
Extract ==
    /\ pc = "compiled"
    /\ table' = print_by_pattern(tree.pat, node)
    /\ pc' = "extracted"
    /\ UNCHANGED <<pattern, tree, node, tablesIn>>
    /\ UNCHANGED <<matchVars, traverseVars>>

ExtractPatterns == WrittenPatterns({"a", "*"})

InitExtract ==
    /\ pattern \in ExtractPatterns
    /\ node \in Documents
    /\ tree = NoTree
    /\ table = <<>>
    /\ tablesIn = <<>>
    /\ pc = "start"
    /\ MatchIdle
    /\ TraverseIdle

NextExtract == Compile \/ Extract

SpecExtract == InitExtract /\ [][NextExtract]_vars

\* C1: every row of the table extracted under a compiled pattern has exactly
\* count_leafs cells.
C1_Width ==
    pc = "extracted" =>
        \A r \in 1..Len(table) : Len(table[r]) = count_leafs(tree.pat)

\* the segment of pair k matches no child of the node
Absent(p, k, n) == \A i \in 1..Len(n.kids) : ~pattern_check(p[k][1], n.kids[i].name)

\* a table of several rows and several columns, one segment being absent
C1_Witness ==
    /\ pc = "extracted"
    /\ count_leafs(tree.pat) >= 2
    /\ Len(table) >= 2
    /\ \E k \in 1..Len(tree.pat) : Absent(tree.pat, k, node)
    /\ \E k \in 1..Len(tree.pat) : ~is_leaf(tree.pat[k][2])


\* the tables of the pairs of a group pattern at a node, in segment order
SegmentTables(p, n) == [k \in 1..Len(p) |-> SegmentTable(p[k][1], p[k][2], n)]

\* |T[k]| * ... * |T[Len(T)]|
RECURSIVE RowsFrom(_, _)
RowsFrom(T, k) == IF k > Len(T) THEN 1 ELSE Len(T[k]) * RowsFrom(T, k + 1)

\* the row of T[k] that belongs to output row r (counted from 0) when the
\* combinations are listed in lexicographic order, the last segment fastest
Digit(T, r, k) == ((r \div RowsFrom(T, k + 1)) % Len(T[k])) + 1

\* the ways to choose one row from each table
Choices(T) ==
    LET most == CHOOSE m \in {Len(T[k]) : k \in 1..Len(T)} :
                    \A k \in 1..Len(T) : Len(T[k]) <= m
    IN  {c \in [1..Len(T) -> 1..most] : \A k \in 1..Len(T) : c[k] <= Len(T[k])}

\* C2: for a group pattern of k >= 2 segments with non-empty tables T1..Tk
\* the extracted table has |T1|*...*|Tk| rows, row r being the concatenation
\* in segment order of the rows chosen by the r-th combination in
\* lexicographic order (last segment fastest); every combination occurs.
C2_Cartesian ==
    (pc = "extracted" /\ Len(tree.pat) >= 2) =>
        LET T == SegmentTables(tree.pat, node)
        IN  (\A k \in 1..Len(T) : T[k] # <<>>) =>
              /\ Len(table) = RowsFrom(T, 1)
              /\ \A r \in 1..Len(table) :
                    table[r] = Concat([k \in 1..Len(T) |-> T[k][Digit(T, r - 1, k)]])
              /\ \A c \in Choices(T) :
                    \E r \in 1..Len(table) :
                        table[r] = Concat([k \in 1..Len(T) |-> T[k][c[k]]])

\* two rows for the first segment and three for the second: six rows
C2_Witness ==
    /\ pc = "extracted"
    /\ Len(tree.pat) = 2
    /\ Len(SegmentTables(tree.pat, node)[1]) = 2
    /\ Len(SegmentTables(tree.pat, node)[2]) = 3
    /\ Len(table) = 6
    /\ Cardinality({table[r] : r \in 1..Len(table)}) = 6

Max(a, b) == IF a >= b THEN a ELSE b

\* the number of rows a pattern yields at a node, counted without building
\* any table: a leaf yields one; a group the product over its segments of the
\* rows of the matching children added up, an absent segment counting as one
RECURSIVE RowCount(_, _), SegmentRows(_, _, _, _), GroupRows(_, _, _, _)
RowCount(p, n) == IF is_leaf(p) THEN 1 ELSE GroupRows(p, n, 1, 0)

SegmentRows(p, n, k, i) ==
    IF i > Len(n.kids) THEN 0
    ELSE (IF pattern_check(p[k][1], n.kids[i].name)
          THEN RowCount(p[k][2], n.kids[i]) ELSE 0)
         + SegmentRows(p, n, k, i + 1)

\* the product over the segments from k on, segment skip left out
GroupRows(p, n, k, skip) ==
    IF k > Len(p) THEN 1
    ELSE (IF k = skip THEN 1 ELSE Max(1, SegmentRows(p, n, k, 1)))
         * GroupRows(p, n, k + 1, skip)

\* the number of columns of the segments before segment k
RECURSIVE ColumnsBefore(_, _)
ColumnsBefore(p, k) ==
    IF k = 1 THEN 0
    ELSE ColumnsBefore(p, k - 1) + count_leafs(p[k - 1][2])

\* C3: a segment of a group pattern that matches no child of the node
\* contributes one row of count_leafs(sub-pattern) empty strings: the table
\* has as many rows as the product of the other segments' row counts, and
\* the columns of the absent segment are empty strings in every row.
C3_Absence ==
    (pc = "extracted" /\ ~is_leaf(tree.pat)) =>
        \A k \in 1..Len(tree.pat) :
            Absent(tree.pat, k, node) =>
              LET sub == tree.pat[k][2]
                  width == count_leafs(sub)
                  before == ColumnsBefore(tree.pat, k)
              IN  /\ SegmentTable(tree.pat[k][1], sub, node)
                         = <<[c \in 1..width |-> ""]>>
                  /\ Len(table) = GroupRows(tree.pat, node, 1, k)
                  /\ \A r \in 1..Len(table) :
                        /\ Len(table[r]) >= before + width
                        /\ \A c \in (before + 1)..(before + width) :
                              table[r][c] = ""

\* the absent segment has a sub-pattern of two columns
C3_WideWitness ==
    /\ pc = "extracted"
    /\ \E k \in 1..Len(tree.pat) :
          Absent(tree.pat, k, node) /\ count_leafs(tree.pat[k][2]) >= 2

\* the absent segment stands beside a segment with several rows
C3_Witness ==
    /\ pc = "extracted"
    /\ Len(tree.pat) >= 2
    /\ Len(table) >= 2
    /\ \E k \in 2..Len(tree.pat) :
          /\ Absent(tree.pat, k, node)
          /\ \E r \in 1..Len(table) : table[r][1] # ""


----------------------------------------------------------------------------
(* The traversal: process_paths, process_path, process_folder and          *)
(* process_file, for one pass of main over the path arguments.             *)
(*                                                                         *)
(* An entry of the file system is [kind, fail, entries].  Its kind says    *)
(* what the operating system answers for it:                               *)
(*   "xml"             a regular file named *.xml that can be read         *)
(*   "xml_unreadable"  a regular file named *.xml whose read fails         *)
(*   "xml_unparseable" a regular file named *.xml that can be read and is  *)
(*                     not well-formed XML                                 *)
(*   "txt"             a regular file of another name                      *)
(*   "nostat"          an entry whose metadata cannot be read              *)
(*   "other"           an entry that is neither a directory nor a file     *)
(*   "nonutf8"         a regular file whose name is not UTF-8              *)
(*   "dir"             a directory; with fail = k > 0 the k-th next_entry  *)
(*                     of its listing fails                                *)
(*   "dir_unlistable"  a directory whose read_dir fails                    *)
(*   "zip"             a regular file named *.zip; its entries are the     *)
(*                     members; with fail = k > 0 by_index fails at the    *)
(*                     k-th member                                         *)
(*   "zip_unopenable"  a regular file named *.zip that cannot be opened    *)
(* A path is the sequence of positions leading to an entry.                *)

File(kind) == [kind |-> kind, fail |-> 0, entries |-> <<>>]

MemberKinds == {"xml", "xml_unreadable", "txt"}
ArgumentKinds ==
    {"xml", "xml_unreadable", "txt", "nostat", "other",
     "dir_unlistable", "zip_unopenable"}

\* the member lists of n members
Members(n) == [1..n -> {File(k) : k \in MemberKinds}]

\* the entry lists of n entries in all (members included), nested at most d
\* deep; listed says that they are read from a directory
RECURSIVE Entries(_, _, _), EntryOfSize(_, _)
Entries(n, d, listed) ==
    IF n = 0 THEN {<<>>}
    ELSE IF d = 0 THEN {}
    ELSE UNION {
             {<<e>> \o rest :
                  e \in EntryOfSize(k, d)
                        \cup (IF listed /\ k = 1 THEN {File("nonutf8")} ELSE {}),
                  rest \in Entries(n - k, d, listed)} :
             k \in 1..n}

EntryOfSize(k, d) ==
    (IF k = 1 THEN {File(kind) : kind \in ArgumentKinds} ELSE {})
    \cup UNION {{[kind |-> "dir", fail |-> f, entries |-> es] : f \in 0..Len(es)} :
                    es \in Entries(k - 1, d - 1, TRUE)}
    \cup (IF d > 1
          THEN UNION {{[kind |-> "zip", fail |-> f, entries |-> es] :
                           f \in 0..Len(es)} : es \in Members(k - 1)}
          ELSE {})

FileSystems == UNION {Entries(n, MaxFsDepth, FALSE) : n \in 1..MaxEntries}

RECURSIVE EntryAt(_, _)
EntryAt(entries, p) ==
    IF Len(p) = 1 THEN entries[p[1]]
    ELSE EntryAt(entries[p[1]].entries, Tail(p))

RECURSIVE PathsBelow(_, _)
PathsBelow(entries, prefix) ==
    UNION {{prefix \o <<i>>} \cup PathsBelow(entries[i].entries, prefix \o <<i>>) :
               i \in 1..Len(entries)}

Paths == PathsBelow(fs, <<>>)
At(p) == EntryAt(fs, p)

\* Metadata: tokio::fs::metadata and DirEntry::metadata succeed
StatOk(kind) == kind # "nostat"
\* Metadata::is_dir
IsDir(kind) == kind \in {"dir", "dir_unlistable"}
\* Metadata::is_file
IsFile(kind) ==
    kind \in {"xml", "xml_unreadable", "xml_unparseable", "txt", "nonutf8",
              "zip", "zip_unopenable"}
\* path.ends_with(".zip")
EndsWithZip(kind) == kind \in {"zip", "zip_unopenable"}
\* file.path().ends_with(".xml")
EndsWithXml(kind) == kind \in {"xml", "xml_unreadable", "xml_unparseable"}
\* ProcessedFile::read_to_string returns Ok
Readable(kind) == kind \in {"xml", "xml_unparseable"}
\* roxmltree::Document::parse returns Ok
Parseable(kind) == kind = "xml"

\* catch_io: one message naming path p
Logged(p) == [diag EXCEPT ![p] = @ + 1]

\* the first poll of the future of an entry that process_folder pushed:
\* process_folder starts with read_dir, process_file with the callback or
\* with the blocking thread of the archive
FirstPoll(kind) ==
    IF IsDir(kind) THEN "read_dir"
    ELSE IF EndsWithZip(kind) THEN "zip_open"
    ELSE "file"

\* main, line 33: total.fetch_add(1, Ordering::SeqCst), one atomic step; the
\* variant stores what a load made before the other increments gives
store_after_stale_load(t, n) == n
fetch_add(t, n) == t + n

\* the callbacks of main, invoked for the file or member at path c: the count
\* pass (lines 31-36) adds one to total for a *.xml path; the process pass
\* (lines 50-67) reads a *.xml file and, when the read succeeds, spawns the
\* blocking task that parses it; a failed read is logged by read_to_string
Callback(c) ==
    LET kind == At(c).kind
    IN  /\ calls' = [calls EXCEPT ![c] = @ + 1]
        /\ IF pass = "count"
           THEN /\ total' = IF EndsWithXml(kind) THEN fetch_add(total, 1)
                                               ELSE total
                /\ UNCHANGED <<spawned, diag>>
           ELSE /\ UNCHANGED total
                /\ IF ~EndsWithXml(kind) THEN UNCHANGED <<spawned, diag>>
                   ELSE IF Readable(kind)
                        THEN spawned' = spawned \cup {c} /\ UNCHANGED diag
                        ELSE diag' = Logged(c) /\ UNCHANGED spawned

\* process_path, lines 50-59: the metadata of a path argument
StatPath(p) ==
    /\ ~panicked
    /\ tpc[p] = "stat"
    /\ LET kind == At(p).kind
       IN  IF ~StatOk(kind)
           THEN /\ diag' = Logged(p)
                /\ tpc' = [tpc EXCEPT ![p] = "done"]
                /\ UNCHANGED panicked
           ELSE IF IsDir(kind) \/ IsFile(kind)
           THEN /\ tpc' = [tpc EXCEPT ![p] = FirstPoll(kind)]
                /\ UNCHANGED <<diag, panicked>>
           ELSE /\ panicked' = TRUE
                /\ UNCHANGED <<diag, tpc>>
    /\ UNCHANGED <<fs, pass, cursor, set, calls, total, spawned>>
    /\ UNCHANGED <<compileVars, matchVars, deliverVars>>

\* the futures in set are dropped unpolled when the async block returns Err
Dropped(p) ==
    [q \in DOMAIN tpc |->
        IF q = p THEN "done"
        ELSE IF \E i \in 1..Len(set[p]) : set[p][i] = q THEN "dropped"
        ELSE tpc[q]]

\* process_folder, line 67: read_dir
ReadDir(p) ==
    /\ ~panicked
    /\ tpc[p] = "read_dir"
    /\ IF At(p).kind = "dir_unlistable"
       THEN /\ diag' = Logged(p)
            /\ tpc' = [tpc EXCEPT ![p] = "done"]
            /\ UNCHANGED cursor
       ELSE /\ tpc' = [tpc EXCEPT ![p] = "next_entry"]
            /\ cursor' = [cursor EXCEPT ![p] = 1]
            /\ UNCHANGED diag
    /\ UNCHANGED <<fs, pass, set, calls, total, spawned, panicked>>
    /\ UNCHANGED <<compileVars, matchVars, deliverVars>>

\* process_folder, line 69: next_entry; None leads to join_all(set), line 84,
\* whose first poll polls every future of set
NextEntry(p) ==
    /\ ~panicked
    /\ tpc[p] = "next_entry"
    /\ IF At(p).fail = cursor[p]
       THEN /\ diag' = Logged(p)
            /\ tpc' = Dropped(p)
       ELSE IF cursor[p] > Len(At(p).entries)
       THEN /\ tpc' = [q \in DOMAIN tpc |->
                          IF q = p THEN "join"
                          ELSE IF \E i \in 1..Len(set[p]) : set[p][i] = q
                               THEN FirstPoll(At(q).kind)
                          ELSE tpc[q]]
            /\ UNCHANGED diag
       ELSE /\ tpc' = [tpc EXCEPT ![p] = "entry_meta"]
            /\ UNCHANGED diag
    /\ UNCHANGED <<fs, pass, cursor, set, calls, total, spawned, panicked>>
    /\ UNCHANGED <<compileVars, matchVars, deliverVars>>

\* process_folder, lines 70-82: the metadata and the name of the entry, and
\* the future pushed for it
EntryMeta(p) ==
    /\ ~panicked
    /\ tpc[p] = "entry_meta"
    /\ LET c == p \o <<cursor[p]>>
           kind == At(c).kind
       IN  IF ~StatOk(kind)
           THEN /\ diag' = Logged(p)
                /\ tpc' = Dropped(p)
                /\ UNCHANGED <<cursor, set, panicked>>
           ELSE IF kind = "nonutf8"
           THEN /\ tpc' = [tpc EXCEPT ![p] = "next_entry"]
                /\ cursor' = [cursor EXCEPT ![p] = @ + 1]
                /\ UNCHANGED <<diag, set, panicked>>
           ELSE IF IsDir(kind) \/ IsFile(kind)
           THEN /\ set' = [set EXCEPT ![p] = Append(@, c)]
                /\ tpc' = [tpc EXCEPT ![p] = "next_entry", ![c] = "pending"]
                /\ cursor' = [cursor EXCEPT ![p] = @ + 1]
                /\ UNCHANGED <<diag, panicked>>
           ELSE /\ panicked' = TRUE
                /\ UNCHANGED <<diag, tpc, cursor, set>>
    /\ UNCHANGED <<fs, pass, calls, total, spawned>>
    /\ UNCHANGED <<compileVars, matchVars, deliverVars>>

\* process_folder, lines 84-85: join_all(set) has completed
Joined(p) ==
    /\ ~panicked
    /\ tpc[p] = "join"
    /\ \A i \in 1..Len(set[p]) : tpc[set[p][i]] = "done"
    /\ tpc' = [tpc EXCEPT ![p] = "done"]
    /\ UNCHANGED <<fs, pass, cursor, set, calls, diag, total, spawned, panicked>>
    /\ UNCHANGED <<compileVars, matchVars, deliverVars>>

\* process_file, lines 115-119: the callback for a file that is no archive
FileCallback(p) ==
    /\ ~panicked
    /\ tpc[p] = "file"
    /\ Callback(p)
    /\ tpc' = [tpc EXCEPT ![p] = "done"]
    /\ UNCHANGED <<fs, pass, cursor, set, panicked>>
    /\ UNCHANGED <<compileVars, matchVars, deliverVars>>

\* process_file, lines 97-100: the blocking thread opens the archive
ZipOpen(p) ==
    /\ ~panicked
    /\ tpc[p] = "zip_open"
    /\ IF At(p).kind = "zip_unopenable"
       THEN /\ diag' = Logged(p)
            /\ tpc' = [tpc EXCEPT ![p] = "done"]
            /\ UNCHANGED cursor
       ELSE /\ tpc' = [tpc EXCEPT ![p] = "zip_member"]
            /\ cursor' = [cursor EXCEPT ![p] = 1]
            /\ UNCHANGED diag
    /\ UNCHANGED <<fs, pass, set, calls, total, spawned, panicked>>
    /\ UNCHANGED <<compileVars, matchVars, deliverVars>>

\* process_file, lines 101-113: one round of the loop over the members, or
\* its end, after which the thread ends and the await returns
ZipMember(p) ==
    /\ ~panicked
    /\ tpc[p] = "zip_member"
    /\ IF cursor[p] > Len(At(p).entries)
       THEN /\ tpc' = [tpc EXCEPT ![p] = "done"]
            /\ UNCHANGED <<cursor, calls, diag, total, spawned>>
       ELSE IF At(p).fail = cursor[p]
       THEN /\ diag' = Logged(p)
            /\ tpc' = [tpc EXCEPT ![p] = "done"]
            /\ UNCHANGED <<cursor, calls, total, spawned>>
       ELSE /\ Callback(p \o <<cursor[p]>>)
            /\ cursor' = [cursor EXCEPT ![p] = @ + 1]
            /\ UNCHANGED tpc
    /\ UNCHANGED <<fs, pass, set, panicked>>
    /\ UNCHANGED <<compileVars, matchVars, deliverVars>>

\* process_paths, lines 37-43: join_all polls one future per path argument
InitTraverse ==
    /\ fs \in FileSystems
    /\ pass \in {"count", "process"}
    /\ tpc = [p \in Paths |-> IF Len(p) = 1 THEN "stat" ELSE "none"]
    /\ cursor = [p \in Paths |-> 0]
    /\ set = [p \in Paths |-> <<>>]
    /\ calls = [p \in Paths |-> 0]
    /\ diag = [p \in Paths |-> 0]
    /\ total = 0
    /\ spawned = {}
    /\ panicked = FALSE
    /\ DeliverIdle
    /\ CompileIdle
    /\ MatchIdle

NextTraverse ==
    \/ \E p \in DOMAIN tpc : StatPath(p)
    \/ \E p \in DOMAIN tpc : ReadDir(p)
    \/ \E p \in DOMAIN tpc : NextEntry(p)
    \/ \E p \in DOMAIN tpc : EntryMeta(p)
    \/ \E p \in DOMAIN tpc : Joined(p)
    \/ \E p \in DOMAIN tpc : FileCallback(p)
    \/ \E p \in DOMAIN tpc : ZipOpen(p)
    \/ \E p \in DOMAIN tpc : ZipMember(p)

SpecTraverse == InitTraverse /\ [][NextTraverse]_vars

\* process_paths has returned
Finished ==
    /\ ~panicked
    /\ \A p \in DOMAIN tpc : Len(p) = 1 => tpc[p] = "done"

Parent(c) == SubSeq(c, 1, Len(c) - 1)
Position(c) == c[Len(c)]

\* an entry of directory d other than c fails: its metadata cannot be read,
\* or the listing fails when it is asked for
SiblingFails(d, c) ==
    \E j \in 1..Len(At(d).entries) :
        /\ j # Position(c)
        /\ At(d \o <<j>>).kind = "nostat" \/ At(d).fail = j

\* C9: when an entry of a traversed directory fails (its metadata, or the
\* listing at it), every other entry of that directory is still traversed:
\* the callback is invoked exactly once for each other regular file, and
\* for each member of each other sound archive, whether listed before or
\* after the failing entry.
C9_SiblingContainment ==
    Finished =>
        \A c \in DOMAIN tpc :
            (/\ Len(c) >= 2
             /\ At(Parent(c)).kind = "dir"
             /\ tpc[Parent(c)] = "done"
             /\ At(Parent(c)).fail # Position(c)
             /\ SiblingFails(Parent(c), c)) =>
                /\ At(c).kind \in {"xml", "xml_unreadable", "txt"} => calls[c] = 1
                /\ (At(c).kind = "zip" /\ At(c).fail = 0) =>
                       \A m \in 1..Len(At(c).entries) : calls[c \o <<m>>] = 1

\* C10: for a directory holding one unreadable file (its metadata or its
\* content cannot be read) and one valid document, the callback is invoked
\* exactly once for the valid document and never for the unreadable file,
\* and exactly one diagnostic message is written.
C10_UnreadableBesideValid ==
    (/\ Finished
     /\ Len(fs) = 1
     /\ fs[1].kind = "dir"
     /\ fs[1].fail = 0
     /\ Len(fs[1].entries) = 2) =>
        \A v, u \in 1..2 :
            (/\ v # u
             /\ fs[1].entries[v].kind = "xml"
             /\ fs[1].entries[u].kind \in {"nostat", "xml_unreadable"}) =>
                /\ calls[<<1, v>>] = 1
                /\ calls[<<1, u>>] = 0
                /\ \E q \in DOMAIN diag :
                      /\ diag[q] = 1
                      /\ \A r \in DOMAIN diag : r # q => diag[r] = 0

----------------------------------------------------------------------------
(* main as a whole: the count pass, then the process pass with its         *)
(* blocking tasks, the delivery channel and output_printer.  The file      *)
(* system is the same in both passes.                                      *)

\* The path arguments of a run: plain files in the order of MainKindOrder,
\* then at most one folder or archive.  process_paths polls the future of
\* every argument whatever precedes it, so the order of the arguments and
\* the place of the folder among them make no difference to a run.
MainKindOrder == <<"xml", "xml_unreadable", "xml_unparseable", "txt", "other">>
MainFileKinds == {"xml", "xml_unreadable", "xml_unparseable", "txt"}

\* n plain files as path arguments
MainFiles(n) ==
    {[i \in 1..n |-> File(MainKindOrder[t[i]])] :
         t \in {u \in [1..n -> 1..Len(MainKindOrder)] :
                    \A i \in 1..(n - 1) : u[i] <= u[i + 1]}}

\* a folder or an archive of k files; the listing is sound (fail = 0) or
\* fails at one of its entries
MainContainers(k) ==
    {[kind |-> c, fail |-> f, entries |-> es] :
         c \in {"dir", "zip"},
         f \in 0..k,
         es \in [1..k -> {File(kind) : kind \in MainFileKinds}]}

MainFileSystems ==
    UNION {MainFiles(n) : n \in 1..MaxDocs}
    \cup UNION {UNION {{files \o <<c>> :
                            files \in MainFiles(n - k), c \in MainContainers(k)} :
                       k \in 1..n} :
                n \in 1..MaxDocs}

\* main, lines 41-50 and 111: total is loaded, the channel and the second
\* process_paths are created, and join! polls it for the first time
StartProcess ==
    /\ pass = "count"
    /\ Finished
    /\ pass' = "process"
    /\ tpc' = [p \in Paths |-> IF Len(p) = 1 THEN "stat" ELSE "none"]
    /\ cursor' = [p \in Paths |-> 0]
    /\ set' = [p \in Paths |-> <<>>]
    /\ calls' = [p \in Paths |-> 0]
    /\ UNCHANGED <<fs, diag, total, spawned, panicked>>
    /\ UNCHANGED <<compileVars, matchVars, deliverVars>>

\* main, line 60: the blocking task of document c runs parse_file, whose
\* unwrap panics on a document that is not well-formed; the panic ends the
\* task and drops its sender
Parse(c) ==
    /\ pass = "process"
    /\ c \in spawned
    /\ worker[c] = "none"
    /\ worker' = [worker EXCEPT ![c] =
                      IF Parseable(At(c).kind) THEN "sending" ELSE "panicked"]
    /\ UNCHANGED <<chan, received, count, lines>>
    /\ UNCHANGED <<fs, pass, tpc, cursor, set, calls, diag, total, spawned,
                   panicked>>
    /\ UNCHANGED <<compileVars, matchVars>>

\* Sender::send completes only when the channel holds fewer than its
\* capacity of entries
AlwaysRoom(ch) == TRUE
HasRoom(ch) == Len(ch) < Capacity

\* main, line 61: block_on(sender.send((path, output))); the task ends and
\* its sender is dropped
Send(c) ==
    /\ worker[c] = "sending"
    /\ HasRoom(chan)
    /\ chan' = Append(chan, c)
    /\ worker' = [worker EXCEPT ![c] = "sent"]
    /\ UNCHANGED <<received, count, lines>>
    /\ UNCHANGED <<fs, pass, tpc, cursor, set, calls, diag, total, spawned,
                   panicked>>
    /\ UNCHANGED <<compileVars, matchVars>>

\* main, lines 77-79: whether a progress line is written for the count-th
\* entry; late says that more than 500 ms have passed since last_info
Emits(n, late) ==
    /\ n % ProgressEvery = 0 \/ n = total
    /\ n = total \/ late

\* main, lines 75-106: output_printer receives the oldest entry
Recv ==
    /\ pass = "process"
    /\ chan # <<>>
    /\ chan' = Tail(chan)
    /\ received' = [received EXCEPT ![Head(chan)] = @ + 1]
    /\ count' = count + 1
    /\ \E late \in BOOLEAN :
          lines' = IF Emits(count + 1, late)
                   THEN Append(lines, [count |-> count + 1, late |-> late])
                   ELSE lines
    /\ UNCHANGED worker
    /\ UNCHANGED <<fs, pass, tpc, cursor, set, calls, diag, total, spawned,
                   panicked>>
    /\ UNCHANGED <<compileVars, matchVars>>

\* a sender is alive: the callback owned by process_paths, or the closure of
\* a blocking task that has not ended
SenderOfTraversalOnly == ~Finished
SenderKeptByMain == TRUE
SenderAlive ==
    \/ ~Finished
    \/ \E c \in spawned : worker[c] \in {"none", "sending"}

\* main, lines 75 and 111: recv returns None once the channel is empty and
\* every sender is dropped; output_printer ends and join! returns
JoinReturn ==
    /\ pass = "process"
    /\ chan = <<>>
    /\ ~SenderAlive
    /\ pass' = "joined"
    /\ UNCHANGED <<fs, tpc, cursor, set, calls, diag, total, spawned, panicked>>
    /\ UNCHANGED <<compileVars, matchVars, deliverVars>>

InitMain ==
    /\ fs \in MainFileSystems
    /\ pass = "count"
    /\ tpc = [p \in Paths |-> IF Len(p) = 1 THEN "stat" ELSE "none"]
    /\ cursor = [p \in Paths |-> 0]
    /\ set = [p \in Paths |-> <<>>]
    /\ calls = [p \in Paths |-> 0]
    /\ diag = [p \in Paths |-> 0]
    /\ total = 0
    /\ spawned = {}
    /\ panicked = FALSE
    /\ worker = [p \in Paths |-> "none"]
    /\ chan = <<>>
    /\ received = [p \in Paths |-> 0]
    /\ count = 0
    /\ lines = <<>>
    /\ CompileIdle
    /\ MatchIdle

NextMain ==
    \/ \E p \in DOMAIN tpc : StatPath(p)
    \/ \E p \in DOMAIN tpc : ReadDir(p)
    \/ \E p \in DOMAIN tpc : NextEntry(p)
    \/ \E p \in DOMAIN tpc : EntryMeta(p)
    \/ \E p \in DOMAIN tpc : Joined(p)
    \/ \E p \in DOMAIN tpc : FileCallback(p)
    \/ \E p \in DOMAIN tpc : ZipOpen(p)
    \/ \E p \in DOMAIN tpc : ZipMember(p)
    \/ StartProcess
    \/ \E c \in DOMAIN worker : Parse(c)
    \/ \E c \in DOMAIN worker : Send(c)
    \/ Recv
    \/ JoinReturn

SpecMain == InitMain /\ [][NextMain]_vars

\* every task and thread that can take a step is eventually scheduled
LiveMain == SpecMain /\ WF_vars(NextMain)

\* a qualifying document: its path ends in ".xml", it can be read and parsed
Qualifying(c) == At(c).kind = "xml"

\* the traversal of the running pass has handed c to the callback
Discovered(c) == calls[c] >= 1

\* every document discovered so far has been received exactly once
AllReceivedOnce ==
    \A c \in DOMAIN calls : (Discovered(c) /\ Qualifying(c)) => received[c] = 1

\* C11: in the process pass, under every interleaving of the traversal, the
\* blocking tasks and output_printer, every qualifying document the traversal
\* hands to the callback is eventually received exactly once by
\* output_printer: the run reaches a state where traversal has returned and
\* each such document has been received once, and no entry is ever received
\* twice.
C11_ExactlyOnce ==
    /\ (pass = "process") ~> (Finished /\ AllReceivedOnce)
    /\ [](\A c \in DOMAIN received : received[c] <= 1)

\* a finished run that delivered more documents than the channel holds, one
\* of them a member of an archive
C11_Witness ==
    /\ pass = "joined"
    /\ AllReceivedOnce
    /\ Cardinality({c \in DOMAIN received : received[c] = 1}) > Capacity
    /\ \E c \in DOMAIN received :
          /\ received[c] = 1
          /\ Len(c) >= 2
          /\ At(Parent(c)).kind = "zip"

\* the entries of the channel that come from document c
Buffered(c) == Cardinality({i \in 1..Len(chan) : chan[i] = c})

\* C12: the channel never holds more than Capacity entries; a task whose
\* send finds the channel full stays suspended in its send until
\* output_printer has removed an entry; and no entry is dropped or
\* overwritten: the entry of every task that has sent is in the channel or
\* has been received, once.
C12_ChannelBound ==
    /\ [](Len(chan) <= Capacity)
    /\ [](\A c \in DOMAIN worker :
              /\ worker[c] = "sent" => Buffered(c) + received[c] = 1
              /\ worker[c] # "sent" => Buffered(c) + received[c] = 0)
    /\ [][\A c \in DOMAIN worker :
              (worker[c] = "sending" /\ Len(chan) = Capacity) =>
                  worker'[c] = "sending"]_vars

\* the channel is full and a task is suspended in its send
C12_Witness ==
    /\ Len(chan) = Capacity
    /\ \E c \in DOMAIN worker : worker[c] = "sending"

\* C13: while the channel is full, no further document is read and handed
\* to a blocking task, so that the documents held in memory stay bounded by
\* the capacity whatever the size of the corpus.
C13_FullChannelStopsReading ==
    [][Len(chan) = Capacity => spawned' = spawned]_vars

\* C17: in a run that received at least one document, a progress line was
\* written for the last document received; and a line written for an
\* earlier document was written at a multiple of the period, more than
\* 500 ms after the previous line.
C17_FinalProgress ==
    (pass = "joined" /\ count >= 1) =>
        /\ \E i \in 1..Len(lines) : lines[i].count = count
        /\ \A i \in 1..Len(lines) :
              lines[i].count < count =>
                  /\ lines[i].count % ProgressEvery = 0
                  /\ lines[i].late

\* C18: the process pass completes: once it has started, the run reaches
\* the state where tokio::join! has returned, which requires that traversal
\* has returned, every blocking task has sent its entry or ended, the
\* channel is empty and closed; no task stays suspended in its send.
C18_Termination ==
    (pass = "process") ~>
        (/\ pass = "joined"
         /\ Finished
         /\ chan = <<>>
         /\ \A c \in spawned : worker[c] \in {"sent", "panicked"})

\* a finished run in which a document was delivered and a task ended
\* without sending
C18_Witness ==
    /\ pass = "joined"
    /\ count >= 1
    /\ \E c \in spawned : worker[c] = "panicked"

\* the documents of the running pass whose display path ends in ".xml"
DiscoveredXml ==
    {c \in DOMAIN calls : Discovered(c) /\ EndsWithXml(At(c).kind)}

\* C14: when the count pass has returned, total equals the number of
\* documents with a path ending in ".xml" that the traversal handed to the
\* callback, each handed over once, whatever the interleaving of the
\* folder tasks and the archive threads.
C14_NoLostCount ==
    (pass = "count" /\ Finished) =>
        /\ total = Cardinality(DiscoveredXml)
        /\ \A c \in DOMAIN calls : calls[c] <= 1

\* a returned count pass that counted a member of an archive and a document
\* outside that archive
C14_Witness ==
    /\ pass = "count"
    /\ Finished
    /\ total >= 2
    /\ \E m, c \in DiscoveredXml :
          /\ Len(m) >= 2
          /\ At(Parent(m)).kind = "zip"
          /\ c # m
          /\ Len(c) = 1 \/ Parent(c) # Parent(m)

\* C15: no path argument and no directory entry aborts the run, whatever
\* its stat outcome and kind.
C15_NoAbort == ~panicked

\* C16: an archive that cannot be opened, or whose reading fails at some
\* member, is logged once and none of its members is handed to the
\* callback.
C16_ArchiveFailure ==
    \A p \in DOMAIN tpc :
        (/\ tpc[p] = "done"
         /\ \/ At(p).kind = "zip_unopenable"
            \/ At(p).kind = "zip" /\ At(p).fail > 0) =>
            /\ diag[p] = 1
            /\ \A m \in 1..Len(At(p).entries) : calls[p \o <<m>>] = 0

----------------------------------------------------------------------------
(* cartesian_product applied to the segment-tables print_by_pattern can    *)
(* hand it: at least one table, each of at least one row, the rows of a    *)
(* table of one width of at least one cell.                                *)

Cells == {"", "x"}

\* the tables of exactly k cells
TablesOf(k) ==
    UNION {[1..r -> [1..(k \div r) -> Cells]] : r \in {d \in 1..k : k % d = 0}}

\* the sequences of tables of exactly n cells in all
RECURSIVE TableLists(_)
TableLists(n) ==
    IF n = 0 THEN {<<>>}
    ELSE UNION {{<<t>> \o rest : t \in TablesOf(k), rest \in TableLists(n - k)} :
                    k \in 1..n}

\* main, lines 143-159: the call of cartesian_product
Combine ==
    /\ pc = "start"
    /\ table' = cartesian_product(tablesIn)
    /\ pc' = "combined"
    /\ UNCHANGED <<pattern, tree, node, tablesIn>>
    /\ UNCHANGED <<matchVars, traverseVars>>

InitProduct ==
    /\ tablesIn \in UNION {TableLists(n) : n \in 1..MaxCells}
    /\ pattern = <<>>
    /\ tree = NoTree
    /\ node = NoNode
    /\ table = <<>>
    /\ pc = "start"
    /\ MatchIdle
    /\ TraverseIdle

NextProduct == Combine

SpecProduct == InitProduct /\ [][NextProduct]_vars

C19_NeverEmpty ==
    pc = "extracted" =>
        /\ Len(table) >= 1
        /\ (/\ ~is_leaf(tree.pat)
            /\ \A k \in 1..Len(tree.pat) : Absent(tree.pat, k, node)) =>
               table = <<[c \in 1..count_leafs(tree.pat) |-> ""]>>

\* a node with children none of which matches any segment of a pattern of
\* several columns
C19_Witness ==
    /\ pc = "extracted"
    /\ ~is_leaf(tree.pat)
    /\ count_leafs(tree.pat) >= 2
    /\ node.kids # <<>>
    /\ \A k \in 1..Len(tree.pat) : Absent(tree.pat, k, node)
    /\ table = <<[c \in 1..count_leafs(tree.pat) |-> ""]>>

====
